---- MODULE Spec2Model ----
(***************************************************************************)
(* Model of the Ninja Horizon WebSocket relay (src/server.ts): the         *)
(* GameRoom class, the GameServer tables (rooms, clients) and the handlers *)
(* the server binds to each accepted WebSocket.  One action is one         *)
(* handler run to completion (the Node.js event loop runs one callback at  *)
(* a time).                                                                *)
(***************************************************************************)
EXTENDS Integers, Sequences, FiniteSets, TLC

\* ---------------------------------------------------------------- bounds
\* Number of WebSocket connections the transport ever accepts.
MaxConns == 3

\* Number of member entries, over all rooms, up to which join_room frames
\* are still delivered.
MaxMembers == 3

\* Number of frames, over all connections, that may wait to be handled.
MaxInFlight == 2

\* Number of relay events, over all connections, the clients send.
MaxRelays == 3

Conns == 1..MaxConns

\* Values a client may put in the roomId / playerId fields of join_room.
RoomIds == {"r1", "r2"}
PlayerIds == {"p1", "p2", "p3"}
JoinPairs == ({"r1"} \X PlayerIds) \cup {<<"r2", "p1">>}

\* ------------------------------------------------------- JavaScript values
Undefined == "undefined"   \* a key missing from the parsed JSON object
Null == "null"             \* ClientInfo.roomId / playerId before a join
NoWs == 0                  \* broadcastToRoom called without excludeWs

\* JavaScript truthiness of a string-or-missing field: !x is true for
\* undefined, null and the empty string.
Falsy(x) == x \in {Undefined, Null, ""}

\* JSON.stringify followed by JSON.parse: keys whose value is undefined are
\* dropped, every other key (null included) is kept.
JSONRoundTrip(message) ==
    [k \in {f \in DOMAIN message : message[f] # Undefined} |-> message[k]]

\* -------------------------------------------------------------- variables
VARIABLES
    readyState,   \* ws.readyState of every connection ("NONE" = not yet accepted)
    clients,      \* GameServer.clients : Map<WebSocket, ClientInfo>
    rooms,        \* GameServer.rooms   : Map<string, GameRoom>
    broadcasts,   \* what the last handler sent: its broadcastToRoom calls (the only
                  \* sends the server makes), each with the connections sent to
    log,          \* the console output of the last handler
    startedRooms, \* rooms that had game_started broadcast since they were created
    wire,         \* per connection, the frames its client has sent that the
                  \* 'message' callback has not run for yet, oldest first
    relaysSent,   \* per connection, the number of relay events its client has sent
    inbox         \* per connection, the relayed events written to its socket, oldest
                  \* first, each as [from |-> sending connection, n |-> its n-th relay event]

vars == <<readyState, clients, rooms, broadcasts, log, startedRooms, wire, relaysSent, inbox>>

\* The record of the traffic, kept only where the order of delivery is studied.
traffic == <<wire, relaysSent, inbox>>

\* ------------------------------------------------------------ Map helpers
\* A JavaScript Map with insertion order is a sequence of [key, value] entries.
MapHas(m, k) == \E i \in 1..Len(m) : m[i].key = k

MapSet(m, k, v) ==
    IF MapHas(m, k)
    THEN [i \in 1..Len(m) |-> IF m[i].key = k THEN [key |-> k, value |-> v] ELSE m[i]]
    ELSE Append(m, [key |-> k, value |-> v])

MapDelete(m, k) == SelectSeq(m, LAMBDA e : e.key # k)

MapSize(m) == Len(m)

\* Array.prototype.indexOf: 0-based index of the first occurrence, -1 if none.
IndexOf(arr, x) ==
    IF \E i \in 1..Len(arr) : arr[i] = x
    THEN (CHOOSE i \in 1..Len(arr) : arr[i] = x /\ \A j \in 1..(i - 1) : arr[j] # x) - 1
    ELSE -1

\* Array.prototype.splice(index, 1)
Splice1(arr, index) ==
    [i \in 1..(Len(arr) - 1) |-> IF i <= index THEN arr[i] ELSE arr[i + 1]]

\* ------------------------------------------------------------- GameRoom
NewGameRoom(id) == [id |-> id, players |-> <<>>, playerIds |-> <<>>]

hasPlayer(room, playerId) == MapHas(room.players, playerId)

getPlayerCount(room) == MapSize(room.players)

isFull(room) == MapSize(room.players) >= 2

\* broadcastToRoom without the readyState === OPEN test.
Recipients_noOpenCheck(room, excludeWs) ==
    LET open == SelectSeq(room.players, LAMBDA e : e.value.ws # excludeWs)
    IN  [i \in 1..Len(open) |-> open[i].value.ws]

\* The connections broadcastToRoom sends to, in Map iteration order.
Recipients(room, excludeWs) ==
    LET open == SelectSeq(room.players,
                    LAMBDA e : e.value.ws # excludeWs /\ readyState[e.value.ws] = "OPEN")
    IN  [i \in 1..Len(open) |-> open[i].value.ws]

\* One broadcastToRoom call: the room, the message as it arrives at a client
\* and the connections it was sent to.
broadcastToRoom(room, message, excludeWs) ==
    [roomId |-> room.id,
     message |-> JSONRoundTrip(message),
     to |-> Recipients(room, excludeWs)]

\* addPlayer announcing the game whenever the room is full after the insertion
\* (isFull() in place of size === 2).
addPlayer_whenFull(room, ws, clientId, playerId) ==
    LET added == [room EXCEPT
                    !.players = MapSet(@, playerId, [ws |-> ws, clientId |-> clientId]),
                    !.playerIds = Append(@, playerId)]
    IN  [room |-> added,
         broadcasts |-> IF isFull(added)
                        THEN <<broadcastToRoom(added, [type |-> "game_started"], NoWs)>>
                        ELSE <<>>]

\* addPlayer without the push onto playerIds.
addPlayer_noJoinOrder(room, ws, clientId, playerId) ==
    LET added == [room EXCEPT
                    !.players = MapSet(@, playerId, [ws |-> ws, clientId |-> clientId])]
    IN  [room |-> added,
         broadcasts |-> IF MapSize(added.players) = 2
                        THEN <<broadcastToRoom(added, [type |-> "game_started"], NoWs)>>
                        ELSE <<>>]

\* addPlayer: the room after the insertion, and the broadcasts it made.
addPlayer(room, ws, clientId, playerId) ==
    LET added == [room EXCEPT
                    !.players = MapSet(@, playerId, [ws |-> ws, clientId |-> clientId]),
                    !.playerIds = Append(@, playerId)]
    IN  [room |-> added,
         broadcasts |-> IF MapSize(added.players) = 2
                        THEN <<broadcastToRoom(added, [type |-> "game_started"], NoWs)>>
                        ELSE <<>>]

removePlayer(room, playerId) ==
    LET index == IndexOf(room.playerIds, playerId)
    IN  [room EXCEPT
            !.players = MapDelete(@, playerId),
            !.playerIds = IF index > -1 THEN Splice1(@, index) ELSE @]

\* ------------------------------------------------------------- GameServer
\* uuidv4(): a fresh identity per accepted connection.
uuidv4(ws) == ws

\* What a handler leaves behind: the two tables, its broadcasts, its log.
Outcome(c, r, b, l) == [clients |-> c, rooms |-> r, broadcasts |-> b, log |-> l]

NoOp(l) == Outcome(clients, rooms, <<>>, l)

RoomsSet(rs, roomId, room) ==
    [k \in DOMAIN rs \cup {roomId} |-> IF k = roomId THEN room ELSE rs[k]]

RoomsDelete(rs, roomId) == [k \in DOMAIN rs \ {roomId} |-> rs[k]]

\* handleJoinRoom without the hasPlayer guard: a duplicate join is added again.
handleJoinRoom_noDuplicateGuard(ws, roomId, playerId) ==
    IF ws \notin DOMAIN clients THEN NoOp(<<>>)
    ELSE IF Falsy(roomId) \/ Falsy(playerId)
    THEN NoOp(<<"roomId and playerId are required">>)
    ELSE
      LET created == roomId \notin DOMAIN rooms
          rooms1 == IF created THEN RoomsSet(rooms, roomId, NewGameRoom(roomId)) ELSE rooms
          log1 == IF created THEN <<"Room created">> ELSE <<>>
          res == addPlayer(rooms1[roomId], ws, clients[ws].id, playerId)
      IN  Outcome([clients EXCEPT ![ws].roomId = roomId, ![ws].playerId = playerId],
                  RoomsSet(rooms1, roomId, res.room),
                  res.broadcasts,
                  log1 \o <<"joined room">>)

\* handleJoinRoom without the check that roomId and playerId are present.
handleJoinRoom_noRequiredCheck(ws, roomId, playerId) ==
    IF ws \notin DOMAIN clients THEN NoOp(<<>>)
    ELSE
      LET created == roomId \notin DOMAIN rooms
          rooms1 == IF created THEN RoomsSet(rooms, roomId, NewGameRoom(roomId)) ELSE rooms
          log1 == IF created THEN <<"Room created">> ELSE <<>>
          room == rooms1[roomId]
      IN  IF hasPlayer(room, playerId)
          THEN Outcome(clients, rooms1, <<>>,
                       log1 \o <<"already in room - ignoring join request">>)
          ELSE
            LET res == addPlayer(room, ws, clients[ws].id, playerId)
            IN  Outcome([clients EXCEPT ![ws].roomId = roomId, ![ws].playerId = playerId],
                        RoomsSet(rooms1, roomId, res.room),
                        res.broadcasts,
                        log1 \o <<"joined room">>)

\* handleJoinRoom that first takes the sender out of the room it was in.
handleJoinRoom_leavesOldRoom(ws, roomId, playerId) ==
    IF ws \notin DOMAIN clients THEN NoOp(<<>>)
    ELSE IF Falsy(roomId) \/ Falsy(playerId)
    THEN NoOp(<<"roomId and playerId are required">>)
    ELSE
      LET old == clients[ws].roomId
          rooms0 == IF old \in DOMAIN rooms /\ old # roomId
                    THEN RoomsSet(rooms, old, removePlayer(rooms[old], clients[ws].playerId))
                    ELSE rooms
          created == roomId \notin DOMAIN rooms0
          rooms1 == IF created THEN RoomsSet(rooms0, roomId, NewGameRoom(roomId)) ELSE rooms0
          log1 == IF created THEN <<"Room created">> ELSE <<>>
          room == rooms1[roomId]
      IN  IF hasPlayer(room, playerId)
          THEN Outcome(clients, rooms1, <<>>,
                       log1 \o <<"already in room - ignoring join request">>)
          ELSE
            LET res == addPlayer(room, ws, clients[ws].id, playerId)
            IN  Outcome([clients EXCEPT ![ws].roomId = roomId, ![ws].playerId = playerId],
                        RoomsSet(rooms1, roomId, res.room),
                        res.broadcasts,
                        log1 \o <<"joined room">>)

handleJoinRoom(ws, roomId, playerId) ==
    IF ws \notin DOMAIN clients THEN NoOp(<<>>)
    ELSE IF Falsy(roomId) \/ Falsy(playerId)
    THEN NoOp(<<"roomId and playerId are required">>)
    ELSE
      LET created == roomId \notin DOMAIN rooms
          rooms1 == IF created THEN RoomsSet(rooms, roomId, NewGameRoom(roomId)) ELSE rooms
          log1 == IF created THEN <<"Room created">> ELSE <<>>
          room == rooms1[roomId]
      IN  IF hasPlayer(room, playerId)
          THEN Outcome(clients, rooms1, <<>>,
                       log1 \o <<"already in room - ignoring join request">>)
          ELSE
            LET res == addPlayer(room, ws, clients[ws].id, playerId)
            IN  Outcome([clients EXCEPT ![ws].roomId = roomId, ![ws].playerId = playerId],
                        RoomsSet(rooms1, roomId, res.room),
                        res.broadcasts,
                        log1 \o <<"joined room">>)

\* handleChat looking the room up under the roomId of the payload.
handleChat_roomFromPayload(ws, message) ==
    IF ws \notin DOMAIN clients
    THEN NoOp(<<"Cannot send chat - not in any room">>)
    ELSE IF message.roomId \notin DOMAIN rooms
    THEN NoOp(<<"Cannot send chat - room not found">>)
    ELSE Outcome(clients, rooms,
                 <<broadcastToRoom(rooms[message.roomId],
                                   [type |-> "chat",
                                    playerId |-> clients[ws].playerId,
                                    displayName |-> message.displayName,
                                    message |-> message.message],
                                   NoWs)>>,
                 <<"Chat">>)

\* handleChat relaying the playerId of the payload.
handleChat_playerIdFromPayload(ws, message) ==
    IF ws \notin DOMAIN clients \/ Falsy(clients[ws].roomId)
    THEN NoOp(<<"Cannot send chat - not in any room">>)
    ELSE IF clients[ws].roomId \notin DOMAIN rooms
    THEN NoOp(<<"Cannot send chat - room not found">>)
    ELSE Outcome(clients, rooms,
                 <<broadcastToRoom(rooms[clients[ws].roomId],
                                   [type |-> "chat",
                                    playerId |-> message.playerId,
                                    displayName |-> message.displayName,
                                    message |-> message.message],
                                   NoWs)>>,
                 <<"Chat">>)

handleChat(ws, message) ==
    IF ws \notin DOMAIN clients \/ Falsy(clients[ws].roomId)
    THEN NoOp(<<"Cannot send chat - not in any room">>)
    ELSE IF clients[ws].roomId \notin DOMAIN rooms
    THEN NoOp(<<"Cannot send chat - room not found">>)
    ELSE Outcome(clients, rooms,
                 <<broadcastToRoom(rooms[clients[ws].roomId],
                                   [type |-> "chat",
                                    playerId |-> clients[ws].playerId,
                                    displayName |-> message.displayName,
                                    message |-> message.message],
                                   NoWs)>>,
                 <<"Chat">>)

handleActionComplete(ws, message) ==
    IF ws \notin DOMAIN clients \/ Falsy(clients[ws].roomId)
    THEN NoOp(<<"Not in any room">>)
    ELSE IF clients[ws].roomId \notin DOMAIN rooms
    THEN NoOp(<<"Room not found">>)
    ELSE Outcome(clients, rooms,
                 <<broadcastToRoom(rooms[clients[ws].roomId],
                                   [type |-> "action_complete",
                                    playerId |-> clients[ws].playerId],
                                   NoWs)>>,
                 <<"completed action">>)

\* handleGameOver that also takes the reporting player out of the room.
handleGameOver_leavesRoom(ws, message) ==
    IF ws \notin DOMAIN clients \/ Falsy(clients[ws].roomId)
    THEN NoOp(<<"Not in any room">>)
    ELSE IF clients[ws].roomId \notin DOMAIN rooms
    THEN NoOp(<<"Room not found">>)
    ELSE Outcome([clients EXCEPT ![ws].roomId = Null, ![ws].playerId = Null],
                 RoomsSet(rooms, clients[ws].roomId,
                          removePlayer(rooms[clients[ws].roomId], clients[ws].playerId)),
                 <<broadcastToRoom(rooms[clients[ws].roomId],
                                   [type |-> "game_over",
                                    playerId |-> clients[ws].playerId],
                                   NoWs)>>,
                 <<"reported game over">>)

handleGameOver(ws, message) ==
    IF ws \notin DOMAIN clients \/ Falsy(clients[ws].roomId)
    THEN NoOp(<<"Not in any room">>)
    ELSE IF clients[ws].roomId \notin DOMAIN rooms
    THEN NoOp(<<"Room not found">>)
    ELSE Outcome(clients, rooms,
                 <<broadcastToRoom(rooms[clients[ws].roomId],
                                   [type |-> "game_over",
                                    playerId |-> clients[ws].playerId],
                                   NoWs)>>,
                 <<"reported game over">>)

\* handlePlayerDisconnect testing for the empty room before the removal.
handlePlayerDisconnect_checksEmptyFirst(roomId, disconnectedPlayerId) ==
    IF roomId \notin DOMAIN rooms
    THEN [rooms |-> rooms, broadcasts |-> <<>>, log |-> <<"Room not found during disconnect">>]
    ELSE
      LET room == rooms[roomId]
          sent == broadcastToRoom(room,
                      [type |-> "disconnect", playerId |-> disconnectedPlayerId], NoWs)
          left == removePlayer(room, disconnectedPlayerId)
      IN  IF getPlayerCount(room) = 0
          THEN [rooms |-> RoomsDelete(rooms, roomId),
                broadcasts |-> <<sent>>,
                log |-> <<"removed from room due to disconnect", "Room deleted">>]
          ELSE [rooms |-> RoomsSet(rooms, roomId, left),
                broadcasts |-> <<sent>>,
                log |-> <<"removed from room due to disconnect">>]

\* handlePlayerDisconnect deleting the room whoever is left in it.
handlePlayerDisconnect_alwaysDeletesRoom(roomId, disconnectedPlayerId) ==
    IF roomId \notin DOMAIN rooms
    THEN [rooms |-> rooms, broadcasts |-> <<>>, log |-> <<"Room not found during disconnect">>]
    ELSE
      LET room == rooms[roomId]
          sent == broadcastToRoom(room,
                      [type |-> "disconnect", playerId |-> disconnectedPlayerId], NoWs)
      IN  [rooms |-> RoomsDelete(rooms, roomId),
           broadcasts |-> <<sent>>,
           log |-> <<"removed from room due to disconnect", "Room deleted">>]

handlePlayerDisconnect(roomId, disconnectedPlayerId) ==
    IF roomId \notin DOMAIN rooms
    THEN [rooms |-> rooms, broadcasts |-> <<>>, log |-> <<"Room not found during disconnect">>]
    ELSE
      LET room == rooms[roomId]
          sent == broadcastToRoom(room,
                      [type |-> "disconnect", playerId |-> disconnectedPlayerId], NoWs)
          left == removePlayer(room, disconnectedPlayerId)
      IN  IF getPlayerCount(left) = 0
          THEN [rooms |-> RoomsDelete(rooms, roomId),
                broadcasts |-> <<sent>>,
                log |-> <<"removed from room due to disconnect", "Room deleted">>]
          ELSE [rooms |-> RoomsSet(rooms, roomId, left),
                broadcasts |-> <<sent>>,
                log |-> <<"removed from room due to disconnect">>]

\* handleDisconnect without this.clients.delete(ws).
handleDisconnect_keepsEntry(ws) ==
    IF ws \notin DOMAIN clients THEN NoOp(<<>>)
    ELSE
      LET clientInfo == clients[ws]
      IN  IF ~Falsy(clientInfo.roomId) /\ ~Falsy(clientInfo.playerId)
          THEN LET res == handlePlayerDisconnect(clientInfo.roomId, clientInfo.playerId)
               IN  Outcome(clients, res.rooms, res.broadcasts,
                           <<"disconnected", "disconnected from room - opponent wins">> \o res.log)
          ELSE Outcome(clients, rooms, <<>>, <<"disconnected">>)

handleDisconnect(ws) ==
    IF ws \notin DOMAIN clients THEN NoOp(<<>>)
    ELSE
      LET clientInfo == clients[ws]
          remaining == [k \in DOMAIN clients \ {ws} |-> clients[k]]
      IN  IF ~Falsy(clientInfo.roomId) /\ ~Falsy(clientInfo.playerId)
          THEN LET res == handlePlayerDisconnect(clientInfo.roomId, clientInfo.playerId)
               IN  Outcome(remaining, res.rooms, res.broadcasts,
                           <<"disconnected", "disconnected from room - opponent wins">> \o res.log)
          ELSE Outcome(remaining, rooms, <<>>, <<"disconnected">>)

\* handleMessage relaying an event of any other type to the sender's room.
handleMessage_relaysUnknown(ws, message) ==
    IF ws \notin DOMAIN clients THEN NoOp(<<>>)
    ELSE
      LET res == CASE message.type = "join_room" ->
                        handleJoinRoom(ws, message.roomId, message.playerId)
                   [] message.type = "chat" -> handleChat(ws, message)
                   [] message.type = "game_over" -> handleGameOver(ws, message)
                   [] message.type = "action_complete" -> handleActionComplete(ws, message)
                   [] OTHER ->
                        IF clients[ws].roomId \in DOMAIN rooms
                        THEN Outcome(clients, rooms,
                                     <<broadcastToRoom(rooms[clients[ws].roomId],
                                                       [type |-> message.type,
                                                        playerId |-> clients[ws].playerId],
                                                       NoWs)>>,
                                     <<"Unknown message type">>)
                        ELSE NoOp(<<"Unknown message type">>)
      IN  [res EXCEPT !.log = <<"Received message">> \o @]

handleMessage(ws, message) ==
    IF ws \notin DOMAIN clients THEN NoOp(<<>>)
    ELSE
      LET res == CASE message.type = "join_room" ->
                        handleJoinRoom(ws, message.roomId, message.playerId)
                   [] message.type = "chat" -> handleChat(ws, message)
                   [] message.type = "game_over" -> handleGameOver(ws, message)
                   [] message.type = "action_complete" -> handleActionComplete(ws, message)
                   [] OTHER -> NoOp(<<"Unknown message type">>)
      IN  [res EXCEPT !.log = <<"Received message">> \o @]

\* ------------------------------------------------------------ inbound data
\* Decoded inbound events.  Every event record carries the same keys; a key
\* the client left out holds Undefined.
Msg(type, roomId, playerId, displayName, message) ==
    [type |-> type, roomId |-> roomId, playerId |-> playerId,
     displayName |-> displayName, message |-> message]

JoinEvents ==
    {Msg("join_room", rp[1], rp[2], Undefined, Undefined) : rp \in JoinPairs}
      \cup {Msg("join_room", "", "p1", Undefined, Undefined),
            Msg("join_room", "r1", Undefined, Undefined, Undefined)}

\* The chat payloads: complete (with a roomId and a playerId of the client's
\* choosing added), and with displayName and message left out.
ChatEvents ==
    {Msg("chat", "r1", "p1", "Al", "hi"),
     Msg("chat", Undefined, Undefined, Undefined, Undefined)}

PlainEvents ==
    {Msg(t, "r1", "p1", Undefined, Undefined) :
        t \in {"action_complete", "game_over", "ping"}}

Events == JoinEvents \cup ChatEvents \cup PlainEvents

\* A text frame: either the JSON encoding of an event or text JSON.parse rejects.
NotJSON == [type |-> "<not JSON>"]

Frames == Events \cup {NotJSON}

\* The message callback treating a frame JSON.parse rejects as a disconnect.
onMessage_dropsClientOnError(ws, frame) ==
    IF frame = NotJSON
    THEN handleDisconnect(ws)
    ELSE handleMessage(ws, frame)

\* The body of the ws.on('message') callback: JSON.parse, then handleMessage;
\* a frame JSON.parse rejects ends in the catch block.
onMessage(ws, frame) ==
    IF frame = NotJSON
    THEN NoOp(<<"Error parsing message">>)
    ELSE handleMessage(ws, frame)

\* --------------------------------------------------------------- actions
RECURSIVE SumOver(_, _)
SumOver(f, S) ==
    IF S = {} THEN 0
    ELSE LET x == CHOOSE y \in S : TRUE IN f[x] + SumOver(f, S \ {x})

\* Member entries over all rooms of the Room Table.
TotalMembers == SumOver([r \in DOMAIN rooms |-> getPlayerCount(rooms[r])], DOMAIN rooms)

StartedAfter(res) ==
    (startedRooms \cup {res.broadcasts[i].roomId :
                          i \in {j \in 1..Len(res.broadcasts) :
                                   res.broadcasts[j].message.type = "game_started"}})
      \cap DOMAIN res.rooms

Apply(res) ==
    /\ clients' = res.clients
    /\ rooms' = res.rooms
    /\ broadcasts' = res.broadcasts
    /\ log' = res.log
    /\ startedRooms' = StartedAfter(res)

Init ==
    /\ readyState = [c \in Conns |-> "NONE"]
    /\ clients = <<>>
    /\ rooms = <<>>
    /\ broadcasts = <<>>
    /\ log = <<>>
    /\ startedRooms = {}
    /\ wire = [c \in Conns |-> <<>>]
    /\ relaysSent = [c \in Conns |-> 0]
    /\ inbox = [c \in Conns |-> <<>>]

\* wss.on('connection'): a new WebSocket is accepted and registered.
OnConnection(ws) ==
    /\ readyState[ws] = "NONE"
    /\ \A earlier \in 1..(ws - 1) : readyState[earlier] # "NONE"
    /\ readyState' = [readyState EXCEPT ![ws] = "OPEN"]
    /\ Apply(Outcome([k \in DOMAIN clients \cup {ws} |->
                        IF k = ws
                        THEN [id |-> uuidv4(ws), roomId |-> Null, playerId |-> Null]
                        ELSE clients[k]],
                     rooms, <<>>, <<"New client connected">>))

\* ws.on('message'): a frame arrives on an accepted connection.
OnMessage(ws, frame) ==
    /\ readyState[ws] # "NONE"
    /\ frame.type = "join_room" => TotalMembers < MaxMembers
    /\ UNCHANGED readyState
    /\ Apply(onMessage(ws, frame))

\* The transport sees the channel going down: readyState leaves OPEN before
\* the 'close' event is emitted.
TransportClosing(ws) ==
    /\ readyState[ws] = "OPEN"
    /\ readyState' = [readyState EXCEPT ![ws] = "CLOSING"]
    /\ Apply(NoOp(<<>>))

\* ws.on('close'): handleDisconnect runs.  The transport emits 'close' only
\* after readyState has left OPEN, so the handler never sees its own
\* connection open; a second run finds the connection CLOSED.
OnClose(ws) ==
    /\ readyState[ws] \in {"CLOSING", "CLOSED"}
    /\ readyState' = [readyState EXCEPT ![ws] = "CLOSED"]
    /\ Apply(handleDisconnect(ws))

\* Every frame is handled as it arrives; the traffic is not recorded.
Next ==
    \/ \E ws \in Conns : OnConnection(ws) /\ UNCHANGED traffic
    \/ \E ws \in Conns, frame \in Frames : OnMessage(ws, frame) /\ UNCHANGED traffic
    \/ \E ws \in Conns : TransportClosing(ws) /\ UNCHANGED traffic
    \/ \E ws \in Conns : OnClose(ws) /\ UNCHANGED traffic

Spec == Init /\ [][Next]_vars

\* ------------------------------------------------- the order of delivery
\* Clients send frames that wait on their connection until the 'message'
\* callback runs for them; every relayed event written to a socket is
\* recorded in the order of the writes.  The connections stay open here: a
\* close takes a connection out of recipient lists and writes no relay.
OrderFrames ==
    {Msg("join_room", "r1", p, Undefined, Undefined) : p \in {"p1", "p2"}}
      \cup {Msg("chat", "r1", "p1", "Al", "hi"),
            Msg("action_complete", "r1", "p1", Undefined, Undefined)}

InFlight == SumOver([c \in Conns |-> Len(wire[c])], Conns)

\* The 'message' callback taking the newest waiting frame.
Dequeue_newestFirst(q) == [item |-> q[Len(q)], rest |-> SubSeq(q, 1, Len(q) - 1)]

\* 'message' events are emitted in the order the frames arrived.
Dequeue(q) == [item |-> Head(q), rest |-> Tail(q)]

\* player.ws.send for the relay broadcasts among bs: each write is appended
\* to the recipient's socket, once per entry of the recipient list.
Written(box, bs, tag) ==
    [m \in Conns |->
        box[m] \o
          [k \in 1..SumOver([i \in 1..Len(bs) |->
                               IF bs[i].message.type \in {"chat", "action_complete", "game_over"}
                               THEN Cardinality({j \in 1..Len(bs[i].to) : bs[i].to[j] = m})
                               ELSE 0],
                            1..Len(bs)) |-> tag]]

\* A client writes a frame to its open connection.
ClientSends(ws, frame) ==
    /\ readyState[ws] = "OPEN"
    /\ InFlight < MaxInFlight
    /\ frame.type # "join_room" => SumOver(relaysSent, Conns) < MaxRelays
    /\ relaysSent' = [relaysSent EXCEPT ![ws] = IF frame.type = "join_room" THEN @ ELSE @ + 1]
    /\ wire' = [wire EXCEPT ![ws] = Append(@, [frame |-> frame, n |-> relaysSent'[ws]])]
    /\ UNCHANGED <<readyState, clients, rooms, broadcasts, log, startedRooms, inbox>>

\* ws.on('message') for the next waiting frame of a connection.
OnQueuedMessage(ws) ==
    /\ wire[ws] # <<>>
    /\ OnMessage(ws, Dequeue(wire[ws]).item.frame)
    /\ wire' = [wire EXCEPT ![ws] = Dequeue(wire[ws]).rest]
    /\ inbox' = Written(inbox, broadcasts', [from |-> ws, n |-> Dequeue(wire[ws]).item.n])
    /\ UNCHANGED relaysSent

NextOrder ==
    \/ \E ws \in Conns : OnConnection(ws) /\ UNCHANGED traffic
    \/ \E ws \in Conns, frame \in OrderFrames : ClientSends(ws, frame)
    \/ \E ws \in Conns : OnQueuedMessage(ws)

SpecOrder == Init /\ [][NextOrder]_vars

\* ------------------------------------------------------------ properties
Range(seq) == {seq[i] : i \in 1..Len(seq)}

\* The member entries of a Room Table, as <<roomId, playerId, connection>>.
Entries(rs) ==
    UNION {{<<r, rs[r].players[i].key, rs[r].players[i].value.ws>> :
              i \in 1..Len(rs[r].players)} : r \in DOMAIN rs}

\* The connections a room's member entries refer to whose channel is open.
OpenMembers(room) ==
    {room.players[i].value.ws :
        i \in {j \in 1..Len(room.players) : readyState[room.players[j].value.ws] = "OPEN"}}

\* The member entries are exactly those the registered connections' ClientInfo
\* name.  An entry a connection leaves behind by joining a second time is
\* never removed, so this holds only while no connection has joined twice.
EntriesMatchRegistry ==
    Entries(rooms) =
       {<<clients[ws].roomId, clients[ws].playerId, ws>> :
           ws \in {c \in DOMAIN clients : clients[c].roomId # Null}}

JoinFrame(roomId, playerId) == Msg("join_room", roomId, playerId, Undefined, Undefined)

RelayTypes == {"chat", "action_complete", "game_over"}

RelayFrames == {f \in Frames : f.type \in RelayTypes}

\* A handler outcome that changes neither table and broadcasts nothing.
IsNoOp(res) == res.rooms = rooms /\ res.clients = clients /\ res.broadcasts = <<>>

\* game_started is broadcast to room r among the broadcasts bs.
StartedIn(bs, r) ==
    \E i \in 1..Len(bs) : bs[i].roomId = r /\ bs[i].message.type = "game_started"

\* C1: every room of the Room Table has at most 2 members, whatever the
\* sequence of events.
C1_AtMostTwoMembers ==
    \A r \in DOMAIN rooms : getPlayerCount(rooms[r]) <= 2

\* C2 (as claimed): a room that has had its game_started broadcast since it
\* was created gets no further game_started broadcast.  Stated for the steps
\* of runs in which no connection has joined twice, where it already fails.
C2_StartedOncePerRoom ==
    [][(EntriesMatchRegistry /\ EntriesMatchRegistry') =>
          \A r \in startedRooms : ~StartedIn(broadcasts', r)]_vars

\* C2 (amended): game_started is broadcast to a room in exactly the steps
\* that handle a join_room adding a participant to it and leaving it with
\* exactly 2 members (again each time a join brings the count back to 2
\* after a member has left); no other step broadcasts it.
C2_StartedWhenCountBecomesTwo ==
    [][\A r \in RoomIds :
         /\ StartedIn(broadcasts', r) =>
              \E ws \in DOMAIN clients, p \in PlayerIds :
                 /\ ~(r \in DOMAIN rooms /\ hasPlayer(rooms[r], p))
                 /\ OnMessage(ws, JoinFrame(r, p))
                 /\ getPlayerCount(rooms'[r]) = 2
         /\ \A ws \in DOMAIN clients, p \in PlayerIds :
              (/\ rooms' # rooms
               /\ r \in DOMAIN rooms'
               /\ getPlayerCount(rooms'[r]) = 2
               /\ ~(r \in DOMAIN rooms /\ hasPlayer(rooms[r], p))
               /\ OnMessage(ws, JoinFrame(r, p)))
                => StartedIn(broadcasts', r)]_vars

\* game_started went out to two open members of a room that had already lost
\* a member (a connection is closed and gone from the registry).
C2_Witness ==
    \E r \in DOMAIN rooms :
        /\ StartedIn(broadcasts, r)
        /\ getPlayerCount(rooms[r]) = 2
        /\ \E i \in 1..Len(broadcasts) : Len(broadcasts[i].to) = 2
        /\ \E ws \in Conns : readyState[ws] = "CLOSED" /\ ws \notin DOMAIN clients
        /\ EntriesMatchRegistry

\* C3: a join_room naming a playerId the room already holds, from the holder
\* or from any other registered connection, changes neither the rooms nor
\* any ClientInfo and sends nothing.
C3_DuplicateJoinIsNoOp ==
    \A ws \in DOMAIN clients, r \in DOMAIN rooms, p \in PlayerIds :
        hasPlayer(rooms[r], p) => IsNoOp(onMessage(ws, JoinFrame(r, p)))

\* A duplicate join has just been ignored, in a state with a second
\* registered connection next to the holder.
C3_Witness ==
    /\ "already in room - ignoring join request" \in Range(log)
    /\ broadcasts = <<>>
    /\ Cardinality(DOMAIN clients) >= 2

\* C4: when a connection that holds a member entry of a room under playerId
\* p closes, every other member of that room whose channel is open is sent
\* {type: disconnect, playerId: p} in the handling of the close.
C4_OtherMemberToldOfDisconnect ==
    [][\A ws \in DOMAIN clients :
         OnClose(ws) =>
           \A r \in DOMAIN rooms :
             \A i, j \in 1..Len(rooms[r].players) :
               (/\ rooms[r].players[i].value.ws = ws
                /\ rooms[r].players[j].value.ws # ws
                /\ readyState[rooms[r].players[j].value.ws] = "OPEN")
                 => \E k \in 1..Len(broadcasts') :
                      /\ broadcasts'[k].message =
                           [type |-> "disconnect", playerId |-> rooms[r].players[i].key]
                      /\ rooms[r].players[j].value.ws \in Range(broadcasts'[k].to)]_vars

\* C5: the Room Table never holds a room without members, nor a room all of
\* whose members have disconnected.
C5_NoRoomOutlivesItsMembers ==
    \A r \in DOMAIN rooms :
        /\ getPlayerCount(rooms[r]) > 0
        /\ \E i \in 1..Len(rooms[r].players) :
              rooms[r].players[i].value.ws \in DOMAIN clients

\* C6: after the disconnect handler has run for a connection the registry
\* has no entry for it, and a run for a connection without an entry changes
\* neither table and broadcasts nothing.
C6_DisconnectUnregisters ==
    [][\A ws \in Conns :
         OnClose(ws) =>
           /\ ws \notin DOMAIN clients'
           /\ ws \notin DOMAIN clients =>
                (rooms' = rooms /\ clients' = clients /\ broadcasts' = <<>>)]_vars

\* A connection is closed and gone from the registry, and the last handler
\* to run (the disconnect handler, run again) logged and broadcast nothing.
C6_Witness ==
    \E ws \in Conns :
        /\ readyState[ws] = "CLOSED"
        /\ ws \notin DOMAIN clients
        /\ log = <<>>
        /\ broadcasts = <<>>

\* C7: chat, action_complete and game_over from a registered connection
\* whose roomId is not set send nothing and change neither table.
C7_RelayOutsideRoomIsNoOp ==
    \A ws \in DOMAIN clients, frame \in RelayFrames :
        Falsy(clients[ws].roomId) => IsNoOp(onMessage(ws, frame))

\* A relay event has just been refused while a room with an open member exists.
C7_Witness ==
    /\ Range(log) \cap {"Not in any room", "Cannot send chat - not in any room"} # {}
    /\ \E ws \in DOMAIN clients : clients[ws].roomId = Null
    /\ \E r \in DOMAIN rooms : OpenMembers(rooms[r]) # {}

\* C8: chat, action_complete and game_over from a connection whose roomId is
\* R go to exactly the members of R whose channel is open, the sender among
\* them; the relayed playerId is the sender's ClientInfo.playerId and, for
\* chat, displayName and message are those of the inbound event.
C8_RelayReachesOpenMembers ==
    \A ws \in DOMAIN clients, frame \in RelayFrames :
        ~Falsy(clients[ws].roomId) =>
           LET res == onMessage(ws, frame)
           IN  /\ res.rooms = rooms
               /\ res.clients = clients
               /\ clients[ws].roomId \in DOMAIN rooms
               /\ Len(res.broadcasts) = 1
               /\ res.broadcasts[1].roomId = clients[ws].roomId
               /\ Range(res.broadcasts[1].to) = OpenMembers(rooms[clients[ws].roomId])
               /\ Len(res.broadcasts[1].to) =
                    Cardinality({e \in Entries(rooms) :
                                   /\ e[1] = clients[ws].roomId
                                   /\ readyState[e[3]] = "OPEN"})
               /\ readyState[ws] = "OPEN" => ws \in Range(res.broadcasts[1].to)
               /\ res.broadcasts[1].message.type = frame.type
               /\ "playerId" \in DOMAIN res.broadcasts[1].message
               /\ res.broadcasts[1].message.playerId = clients[ws].playerId
               /\ frame.type = "chat" =>
                    \A k \in {"displayName", "message"} :
                       frame[k] # Undefined =>
                          /\ k \in DOMAIN res.broadcasts[1].message
                          /\ res.broadcasts[1].message[k] = frame[k]

\* A chat whose payload names playerId p1 went to both members of a room as
\* coming from p2, with the displayName and message of the payload.
C8_Witness ==
    \E i \in 1..Len(broadcasts) :
        /\ broadcasts[i].message =
             [type |-> "chat", playerId |-> "p2", displayName |-> "Al", message |-> "hi"]
        /\ Len(broadcasts[i].to) = 2

\* C9: a join_room whose roomId or playerId is missing or empty creates no
\* room, adds no member, leaves every ClientInfo as it was and sends nothing.
C9_IncompleteJoinIsNoOp ==
    \A ws \in DOMAIN clients, frame \in JoinEvents :
        (frame.roomId \in {Undefined, ""} \/ frame.playerId \in {Undefined, ""})
           => IsNoOp(onMessage(ws, frame))

\* An incomplete join_room has just been dropped.
C9_Witness ==
    /\ "roomId and playerId are required" \in Range(log)
    /\ clients # <<>>
    /\ broadcasts = <<>>

\* C10: a registered connection's roomId, once set, stays set; a connection
\* whose registry entry is gone gets none again; and a member entry leaves a
\* room only in the disconnect handling of a registered connection.
C10_OneWayLifecycle ==
    [][/\ \A ws \in DOMAIN clients :
            ~Falsy(clients[ws].roomId) =>
               (ws \in DOMAIN clients' => ~Falsy(clients'[ws].roomId))
       /\ \A ws \in Conns :
            (readyState[ws] # "NONE" /\ ws \notin DOMAIN clients)
               => ws \notin DOMAIN clients'
       /\ ~(Entries(rooms) \subseteq Entries(rooms')) =>
            \E ws \in DOMAIN clients :
               /\ OnClose(ws)
               /\ Entries(rooms) \ Entries(rooms') \subseteq
                    {<<clients[ws].roomId, clients[ws].playerId, ws>>}]_vars

\* A connection that was in a room has been taken out of it by its own
\* disconnect, while another connection that has joined stays in its room.
C10_Witness ==
    /\ "removed from room due to disconnect" \in Range(log)
    /\ \E ws \in Conns : readyState[ws] = "CLOSED" /\ ws \notin DOMAIN clients
    /\ \E ws \in DOMAIN clients : clients[ws].roomId # Null

\* The rooms that hold a member entry whose channel is not open.
RoomsWithClosedMember == {e[1] : e \in {x \in Entries(rooms) : readyState[x[3]] # "OPEN"}}

\* C11: no broadcast sends to a connection whose channel is not open, and a
\* broadcast that skips such a member (of a relay event or of a join) takes
\* no member entry out of any room and no entry out of the registry.
C11_ClosedMemberSkippedNotRemoved ==
    /\ \A i \in 1..Len(broadcasts) :
          \A c \in Range(broadcasts[i].to) : readyState[c] = "OPEN"
    /\ RoomsWithClosedMember # {} =>
          \A ws \in DOMAIN clients, frame \in Frames :
             LET res == onMessage(ws, frame)
             IN  /\ \A i \in 1..Len(res.broadcasts) :
                       \A c \in Range(res.broadcasts[i].to) : readyState[c] = "OPEN"
                 /\ Entries(rooms) \subseteq Entries(res.rooms)
                 /\ DOMAIN res.clients = DOMAIN clients
                 /\ frame \in RelayFrames => (res.rooms = rooms /\ res.clients = clients)

\* A relay event has just been broadcast in a room that holds a member whose
\* channel is not open: it went to fewer connections than the room has
\* members, and the member is still there.
C11_Witness ==
    \E i \in 1..Len(broadcasts) :
        /\ broadcasts[i].message.type \in RelayTypes
        /\ broadcasts[i].roomId \in RoomsWithClosedMember
        /\ Len(broadcasts[i].to) >= 1
        /\ Len(broadcasts[i].to) < getPlayerCount(rooms[broadcasts[i].roomId])

\* C12: a frame that is not valid JSON changes neither table and sends
\* nothing, and the connection it came on keeps its channel state and its
\* registry entry (the state its later events are handled in is the one
\* before the frame).
C12_BadFrameDiscarded ==
    [][\A ws \in Conns :
         OnMessage(ws, NotJSON) =>
           /\ rooms' = rooms
           /\ clients' = clients
           /\ broadcasts' = <<>>
           /\ readyState' = readyState]_vars

\* A frame that is not JSON has just been discarded while a connection that
\* is open, registered and in a room with an open member exists.
C12_Witness ==
    /\ log = <<"Error parsing message">>
    /\ broadcasts = <<>>
    /\ \E ws \in DOMAIN clients :
          /\ readyState[ws] = "OPEN"
          /\ clients[ws].roomId \in DOMAIN rooms
          /\ ws \in OpenMembers(rooms[clients[ws].roomId])

\* The types of the messages the server sends.
OutboundTypes == {"game_started", "chat", "action_complete", "game_over", "disconnect"}

\* The types handleMessage dispatches on.
InboundTypes == {"join_room", "chat", "game_over", "action_complete"}

C14_ConnectedOnAccept ==
    [][\A ws \in Conns :
         (readyState[ws] = "NONE" /\ OnConnection(ws)) =>
            \E i \in 1..Len(broadcasts') :
               /\ broadcasts'[i].message.type = "connected"
               /\ ws \in Range(broadcasts'[i].to)]_vars

\* The fields of an outbound message of each type, as a client decodes it.
FieldsOf(type) ==
    CASE type = "game_started" -> {"type"}
      [] type = "chat" -> {"type", "playerId", "displayName", "message"}
      [] type \in {"action_complete", "game_over", "disconnect"} -> {"type", "playerId"}
      [] OTHER -> {}

\* C15: every message sent, once serialized and decoded again, has exactly
\* the fields of its type, whatever inbound event triggered it.
C15_ExactFieldSet ==
    \A i \in 1..Len(broadcasts) :
        DOMAIN broadcasts[i].message = FieldsOf(broadcasts[i].message.type)

\* No room of rs holds two entries for one playerId, nor a playerId twice in
\* its join-order list.
NoDuplicateMember(rs) ==
    \A r \in DOMAIN rs :
        /\ \A i, j \in 1..Len(rs[r].players) :
              rs[r].players[i].key = rs[r].players[j].key => i = j
        /\ \A i, j \in 1..Len(rs[r].playerIds) :
              rs[r].playerIds[i] = rs[r].playerIds[j] => i = j

\* C16: of two join_room events for the same roomId and playerId from two
\* connections, handled one after the other in either order, the first is
\* added and the second changes nothing (its sender's ClientInfo stays as
\* it was, unset if it had not joined); no room holds two entries for one
\* playerId and no join-order list holds a playerId twice.
C16_FirstJoinWins ==
    /\ NoDuplicateMember(rooms)
    /\ \A ws \in DOMAIN clients, rp \in JoinPairs :
          LET res == onMessage(ws, JoinFrame(rp[1], rp[2]))
          IN  /\ NoDuplicateMember(res.rooms)
              /\ IF \E e \in Entries(rooms) : e[1] = rp[1] /\ e[2] = rp[2]
                 THEN IsNoOp(res)
                 ELSE Entries(res.rooms) = Entries(rooms) \cup {<<rp[1], rp[2], ws>>}

\* A join_room for a slot another connection holds has just been ignored:
\* the room has the one entry, its holder is registered under it, and a
\* second registered, open connection has roomId and playerId unset.
C16_Witness ==
    /\ "already in room - ignoring join request" \in Range(log)
    /\ \E r \in DOMAIN rooms, a, b \in DOMAIN clients :
          /\ a # b
          /\ getPlayerCount(rooms[r]) = 1
          /\ rooms[r].players[1].value.ws = a
          /\ clients[a].roomId = r
          /\ clients[a].playerId = rooms[r].players[1].key
          /\ readyState[b] = "OPEN"
          /\ clients[b].roomId = Null
          /\ clients[b].playerId = Null

\* C17: the disconnect handling of a connection recorded as member p of room
\* R broadcasts {type: disconnect, playerId: p} to the open members of R as
\* it is before the removal, takes the entry of p out, deletes R if that
\* leaves it empty, and drops the registry entry; the connection itself is
\* not among the recipients, and no message is ever sent to a connection
\* that is not open (a closed connection stays closed).
C17_DisconnectSequence ==
    [][/\ \A i \in 1..Len(broadcasts') :
            \A c \in Range(broadcasts'[i].to) : readyState'[c] = "OPEN"
       /\ \A c \in Conns : readyState[c] = "CLOSED" => readyState'[c] = "CLOSED"
       /\ \A ws \in DOMAIN clients :
            (/\ ws \notin DOMAIN clients'
             /\ ~Falsy(clients[ws].roomId)
             /\ OnClose(ws))
              => LET R == clients[ws].roomId
                     p == clients[ws].playerId
                 IN  /\ R \in DOMAIN rooms
                     /\ Len(broadcasts') = 1
                     /\ broadcasts'[1].roomId = R
                     /\ broadcasts'[1].message = [type |-> "disconnect", playerId |-> p]
                     /\ Range(broadcasts'[1].to) = OpenMembers(rooms[R])
                     /\ ws \notin Range(broadcasts'[1].to)
                     /\ Entries(rooms') = Entries(rooms) \ {<<R, p, ws>>}
                     /\ R \in DOMAIN rooms' <=> getPlayerCount(rooms[R]) > 1
                     /\ \A r \in DOMAIN rooms \ {R} : r \in DOMAIN rooms' /\ rooms'[r] = rooms[r]
                     /\ clients' = [k \in DOMAIN clients \ {ws} |-> clients[k]]]_vars

\* The last member of a room has disconnected: the disconnect went to no
\* one, the room is deleted and the connection is closed and unregistered.
C17_Witness ==
    /\ log = <<"disconnected", "disconnected from room - opponent wins",
               "removed from room due to disconnect", "Room deleted">>
    /\ Len(broadcasts) = 1
    /\ broadcasts[1].message.type = "disconnect"
    /\ broadcasts[1].to = <<>>
    /\ broadcasts[1].roomId \notin DOMAIN rooms
    /\ \E ws \in Conns : readyState[ws] = "CLOSED" /\ ws \notin DOMAIN clients

\* C18: a join_room with roomId r and playerId p that r does not hold yet,
\* from a registered connection, creates r if it is absent, appends the
\* entry p -> {the sender's connection, the sender's registry id} to the
\* members and p to the join order of r, and sets the sender's
\* ClientInfo.roomId and playerId to r and p.
C18_JoinAddsLastAndRecords ==
    \A ws \in DOMAIN clients, rp \in JoinPairs :
        LET r == rp[1]
            p == rp[2]
            before == IF r \in DOMAIN rooms THEN rooms[r] ELSE [id |-> r, players |-> <<>>, playerIds |-> <<>>]
            res == onMessage(ws, JoinFrame(r, p))
        IN  ~(\E e \in Entries(rooms) : e[1] = r /\ e[2] = p) =>
               /\ DOMAIN res.rooms = DOMAIN rooms \cup {r}
               /\ res.rooms[r].id = r
               /\ res.rooms[r].players =
                    Append(before.players,
                           [key |-> p, value |-> [ws |-> ws, clientId |-> clients[ws].id]])
               /\ res.rooms[r].playerIds = Append(before.playerIds, p)
               /\ DOMAIN res.clients = DOMAIN clients
               /\ res.clients[ws] = [id |-> clients[ws].id, roomId |-> r, playerId |-> p]

\* A join has just created a room next to an existing one: the sender is
\* the last (and only) member of the new room and is recorded under it.
C18_Witness ==
    /\ log = <<"Received message", "Room created", "joined room">>
    /\ Cardinality(DOMAIN rooms) = 2
    /\ \E ws \in DOMAIN clients :
          /\ clients[ws].roomId \in DOMAIN rooms
          /\ rooms[clients[ws].roomId].players =
                <<[key |-> clients[ws].playerId,
                   value |-> [ws |-> ws, clientId |-> clients[ws].id]]>>
          /\ rooms[clients[ws].roomId].playerIds = <<clients[ws].playerId>>

\* From this state to the next, the ClientInfo of every connection other
\* than ws and every room other than R are as they were.
OthersUnchanged(ws, R) ==
    /\ DOMAIN clients \ {ws} = DOMAIN clients' \ {ws}
    /\ \A c \in DOMAIN clients \ {ws} : clients'[c] = clients[c]
    /\ DOMAIN rooms \ {R} = DOMAIN rooms' \ {R}
    /\ \A r \in DOMAIN rooms \ {R} : rooms'[r] = rooms[r]

\* C20: a step that handles an event of connection ws and changes a table
\* handles either a join_room, and then changes at most the ClientInfo of ws
\* and the room the event names, or the close of ws, and then changes at
\* most the registry entry of ws and the room its ClientInfo names; chat,
\* action_complete, game_over and every other frame change no table.
C20_EventTouchesOwnEntryAndOneRoom ==
    [][(rooms' # rooms \/ clients' # clients) =>
          /\ \A ws \in Conns, frame \in Frames :
                OnMessage(ws, frame) =>
                   (frame.type = "join_room" /\ OthersUnchanged(ws, frame.roomId))
          /\ \A ws \in Conns :
                OnClose(ws) =>
                   (ws \in DOMAIN clients /\ OthersUnchanged(ws, clients[ws].roomId))]_vars

\* A connection has just joined room r2 while room r1 holds two open
\* members that are other connections.
C20_Witness ==
    /\ "joined room" \in Range(log)
    /\ DOMAIN rooms = {"r1", "r2"}
    /\ Cardinality(OpenMembers(rooms["r1"])) = 2
    /\ getPlayerCount(rooms["r2"]) = 1
    /\ rooms["r2"].players[1].value.ws \notin OpenMembers(rooms["r1"])

\* C19: on every connection the relays of the events of one sender are
\* written in the order the sender sent the events: the relay of its n-th
\* relay event is never written after the relay of a later one, however the
\* frames of the other connections are interleaved.
C19_RelayOrderPreserved ==
    \A m \in Conns :
        \A i, j \in 1..Len(inbox[m]) :
            (i < j /\ inbox[m][i].from = inbox[m][j].from)
               => inbox[m][i].n <= inbox[m][j].n

\* A member has received, in this order, the relay of the first relay event
\* of another connection, a relay of an event of a third party or of its
\* own, and the relay of the second relay event of that connection.
C19_Witness ==
    \E m, c \in Conns :
        \E i, j, k \in 1..Len(inbox[m]) :
            /\ m # c /\ i < j /\ j < k
            /\ inbox[m][i] = [from |-> c, n |-> 1]
            /\ inbox[m][j].from # c
            /\ inbox[m][k] = [from |-> c, n |-> 2]

\* The console output of the branches taken when a ClientInfo names a room
\* the Room Table does not hold.
RoomNotFoundLogs ==
    {"Cannot send chat - room not found", "Room not found",
     "Room not found during disconnect"}

\* C21: for every registered connection whose ClientInfo has roomId R and
\* playerId p set, the Room Table holds R and the member entry of R under p
\* refers to that connection; roomId and playerId are set together; no
\* handler has taken a 'room not found' branch.
C21_RegistryNamesOwnEntry ==
    /\ \A ws \in DOMAIN clients :
          /\ Falsy(clients[ws].roomId) <=> Falsy(clients[ws].playerId)
          /\ ~Falsy(clients[ws].roomId) =>
                /\ clients[ws].roomId \in DOMAIN rooms
                /\ \E i \in 1..Len(rooms[clients[ws].roomId].players) :
                      /\ rooms[clients[ws].roomId].players[i].key = clients[ws].playerId
                      /\ rooms[clients[ws].roomId].players[i].value.ws = ws
    /\ Range(log) \cap RoomNotFoundLogs = {}

\* A relay event of a member has just been broadcast in a room that another
\* member has left by disconnecting and that also holds an entry no
\* ClientInfo names.
C21_Witness ==
    /\ Range(log) \cap {"Chat", "completed action", "reported game over"} # {}
    /\ Len(broadcasts) = 1
    /\ Len(broadcasts[1].to) >= 1
    /\ \E ws \in Conns : readyState[ws] = "CLOSED" /\ ws \notin DOMAIN clients
    /\ ~EntriesMatchRegistry

\* C22: a connection holds at most one member entry over all rooms, and the
\* entry it holds is the one its ClientInfo names.
C22_OneSlotPerConnection ==
    \A e \in Entries(rooms) :
        e[3] \in DOMAIN clients =>
           (clients[e[3]].roomId = e[1] /\ clients[e[3]].playerId = e[2])

\* C23: every member entry of every room refers to a connection that is
\* still registered; so once every accepted connection has closed and had
\* its disconnect handled (the registry is empty), the Room Table is empty.
C23_NoEntryOutlivesItsConnection ==
    /\ \A e \in Entries(rooms) : e[3] \in DOMAIN clients
    /\ (\A c \in Conns : readyState[c] \in {"NONE", "CLOSED"} /\ c \notin DOMAIN clients)
          => rooms = <<>>

\* A member entry that no ClientInfo names comes into being only in a step
\* in which a connection whose roomId is already set gets a new ClientInfo,
\* that is, in the handling of its further join_room.
StaleEntryOnlyFromSecondJoin ==
    [][(EntriesMatchRegistry /\ ~EntriesMatchRegistry') =>
          \E ws \in DOMAIN clients :
             /\ ~Falsy(clients[ws].roomId)
             /\ ws \in DOMAIN clients'
             /\ clients'[ws] # clients[ws]]_vars

====
